---------------------------- MODULE Spec2Model ----------------------------
(***************************************************************************)
(* A model of the Essent dynamic-pricing client                            *)
(* (src/src/essent_dynamic_pricing/client.py).                             *)
(*                                                                         *)
(* One call of EssentClient.async_get_prices is a short state machine:     *)
(* the HTTP request, the read of the body, and the synchronous             *)
(* normalization.  The helpers _select_days, _normalize_energy_block,      *)
(* _tariff_sort_key and _normalize_unit are operators, computed as the     *)
(* Python code computes them, exceptions included: every operator that can *)
(* raise returns an outcome record [kind, msg, val] whose kind is "ok" or  *)
(* the name of the exception class raised.                                 *)
(*                                                                         *)
(* JSON values are tagged tuples, <<tag>> or <<tag, payload>>:             *)
(*   <<"absent">>   the key is not in the enclosing object                 *)
(*   <<"null">>     JSON null / Python None                                *)
(*   <<"num", n>>   a number        <<"str", s>>   a string                *)
(*   <<"list", q>>  an array        <<"dict", r>>  an object               *)
(* Strings that the code inspects character by character (units, start     *)
(* times) are sequences of one-character strings; the character "sup3"     *)
(* stands for the superscript three.                                       *)
(***************************************************************************)
EXTENDS Integers, Sequences, FiniteSets, TLC

VARIABLES
    pc,            \* position of the call: which step runs next
    current_date,  \* datetime.now(...).astimezone().date().isoformat()
    sum_impl,      \* how the interpreter's sum() adds floats
    fault,         \* what the transport did to this call
    response,      \* the ClientResponse returned by session.get
    body,          \* the text returned by response.text()
    frame,         \* arguments of the function under study
    outcome        \* what the call returned or raised

vars == <<pc, current_date, sum_impl, fault, response, body, frame, outcome>>

---------------------------------------------------------------------------
(* Bounds of the model.                                                    *)

MaxUnitLen == 3
MaxTariffs == 3
MaxDays == 3
MantissaBits == 3

---------------------------------------------------------------------------
(* JSON values and the Python operations the client applies to them.       *)

Absent == <<"absent">>
Null == <<"null">>
Num(n) == <<"num", n>>
Str(s) == <<"str", s>>
List(q) == <<"list", q>>
Dict(r) == <<"dict", r>>

Tag(v) == v[1]
Val(v) == v[2]

IsDict(v) == Tag(v) = "dict"

\* An object is a record over all the keys the client reads; a key the
\* object does not carry holds Absent.  The object {} carries none.
IsEmptyDict(v) == IsDict(v) /\ \A k \in DOMAIN Val(v) : Val(v)[k] = Absent

\* Python truthiness (bool(v)).
Truthy(v) ==
    CASE Tag(v) = "absent" -> FALSE
      [] Tag(v) = "null" -> FALSE
      [] Tag(v) = "num" -> Val(v) # 0
      [] Tag(v) = "str" -> Val(v) # <<>>
      [] Tag(v) = "list" -> Val(v) # <<>>
      [] Tag(v) = "dict" -> ~IsEmptyDict(v)

\* d.get(key): None when the key is missing.
Get(d, key) == IF Val(d)[key] = Absent THEN Null ELSE Val(d)[key]

\* d.get(key, default).
GetOr(d, key, default) == IF Val(d)[key] = Absent THEN default ELSE Val(d)[key]

\* Outcomes of an operation that may raise.
Ok(v) == [kind |-> "ok", msg |-> <<>>, val |-> v]
Raise(k, m) == [kind |-> k, msg |-> m, val |-> Null]

IsOk(o) == o.kind = "ok"

NoOutcome == [kind |-> "none", msg |-> <<>>, val |-> Null]

\* Before the request: no fault, no response, no body.
NoFault == [phase |-> "none", kind |-> "none"]
NoResponse == [status |-> 0, json_content_type |-> FALSE]
NoBody == <<"unread">>

---------------------------------------------------------------------------
(* Strings.                                                                *)

\* str.lower() on one character.
LowerChar(c) ==
    CASE c = "K" -> "k"
      [] c = "W" -> "w"
      [] c = "H" -> "h"
      [] c = "M" -> "m"
      [] c = "X" -> "x"
      [] OTHER -> c

Lower(s) == [i \in 1..Len(s) |-> LowerChar(s[i])]

\* s.replace(old, new) for one-character old and new.
Replace(s, old, new) == [i \in 1..Len(s) |-> IF s[i] = old THEN new ELSE s[i]]

IsSpace(c) == c = " "

RECURSIVE LStrip(_)
LStrip(s) == IF s # <<>> /\ IsSpace(Head(s)) THEN LStrip(Tail(s)) ELSE s

RECURSIVE RStrip(_)
RStrip(s) ==
    IF s # <<>> /\ IsSpace(s[Len(s)]) THEN RStrip(SubSeq(s, 1, Len(s) - 1)) ELSE s

\* str.strip().
Strip(s) == RStrip(LStrip(s))

\* Code points of the characters start times are made of.
Code(c) ==
    CASE c = "0" -> 48
      [] c = "1" -> 49
      [] c = "T" -> 84

\* Python's < on str: lexicographic by code point, a proper prefix first.
RECURSIVE StrLess(_, _)
StrLess(a, b) ==
    IF b = <<>> THEN FALSE
    ELSE IF a = <<>> THEN TRUE
    ELSE IF Head(a) # Head(b) THEN Code(Head(a)) < Code(Head(b))
    ELSE StrLess(Tail(a), Tail(b))

---------------------------------------------------------------------------
(* _normalize_unit                                                         *)

kWh == <<"k", "W", "h">>
CubicMetre == <<"m", "sup3">>

\* A variant that returns the lowered string when no unit matches.
NormalizeUnitLowered(unit) ==
    LET unit_normalized == Lower(Replace(unit, "sup3", "3"))
    IN  IF unit_normalized = <<"k", "w", "h">> THEN kWh
        ELSE IF unit_normalized \in {<<"m", "3">>, <<"m", "^", "3">>} THEN CubicMetre
        ELSE unit_normalized

NormalizeUnit(unit) ==
    LET unit_normalized == Lower(Replace(unit, "sup3", "3"))
    IN  IF unit_normalized = <<"k", "w", "h">> THEN kWh
        ELSE IF unit_normalized \in {<<"m", "3">>, <<"m", "^", "3">>} THEN CubicMetre
        ELSE unit

UnitChars == {"k", "K", "w", "W", "h", "H", "m", "M", "3", "sup3", "^", " ", "x", "X"}

RECURSIVE StringsUpTo(_, _)
StringsUpTo(chars, n) ==
    IF n = 0 THEN {<<>>}
    ELSE LET shorter == StringsUpTo(chars, n - 1)
         IN  shorter \cup {Append(s, c) : s \in shorter, c \in chars}

UnitStrings == StringsUpTo(UnitChars, MaxUnitLen)

\* The call _normalize_unit(u), and a second call on its result.
InitUnit ==
    /\ pc = "unit_call"
    /\ frame \in {[unit |-> u, once |-> <<>>, twice |-> <<>>] : u \in UnitStrings}
    /\ current_date = <<>>
    /\ sum_impl = "fold"
    /\ fault = NoFault
    /\ response = NoResponse
    /\ body = NoBody
    /\ outcome = NoOutcome

CallNormalizeUnit ==
    /\ pc = "unit_call"
    /\ frame' = [frame EXCEPT !.once = NormalizeUnit(frame.unit)]
    /\ pc' = "unit_once"
    /\ UNCHANGED <<current_date, sum_impl, fault, response, body, outcome>>

CallNormalizeUnitAgain ==
    /\ pc = "unit_once"
    /\ frame' = [frame EXCEPT !.twice = NormalizeUnit(frame.once)]
    /\ pc' = "unit_twice"
    /\ UNCHANGED <<current_date, sum_impl, fault, response, body, outcome>>

NextUnit == CallNormalizeUnit \/ CallNormalizeUnitAgain

SpecUnit == InitUnit /\ [][NextUnit]_vars

\* Case variants, written without the code's lower() and replace().
IsKwhVariant(u) ==
    /\ Len(u) = 3
    /\ u[1] \in {"k", "K"}
    /\ u[2] \in {"w", "W"}
    /\ u[3] \in {"h", "H"}

IsCubicVariant(u) ==
    \/ /\ Len(u) = 2
       /\ u[1] \in {"m", "M"}
       /\ u[2] \in {"3", "sup3"}
    \/ /\ Len(u) = 3
       /\ u[1] \in {"m", "M"}
       /\ u[2] = "^"
       /\ u[3] \in {"3", "sup3"}

\* C9: _normalize_unit is idempotent; every case variant of "kwh" maps to
\* "kWh", every case variant of "m3" or "m^3" (superscript three read as
\* "3") maps to the cubic-metre form, and every other string is returned
\* verbatim.
C9_UnitIdempotent ==
    /\ pc \in {"unit_once", "unit_twice"} =>
          /\ IsKwhVariant(frame.unit) => frame.once = kWh
          /\ IsCubicVariant(frame.unit) => frame.once = CubicMetre
          /\ ~IsKwhVariant(frame.unit) /\ ~IsCubicVariant(frame.unit)
                => frame.once = frame.unit
    /\ pc = "unit_twice" => frame.twice = frame.once

\* A second call has run on a canonicalized unit that differs from the input.
C9_Witness ==
    /\ pc = "unit_twice"
    /\ frame.unit = <<"M", "^", "sup3">>
    /\ frame.once = CubicMetre

---------------------------------------------------------------------------
(* Floating point.  A float is a binary floating-point number with         *)
(* MantissaBits bits of significand, round-to-nearest, ties-to-even, and   *)
(* gradual underflow; values are counted in units of the smallest          *)
(* subnormal, so the representable values are the integers m * 2^e with    *)
(* m < 2^MantissaBits.  Python's float is the same format with 53 bits.    *)
(* The exponent range is wide enough that no sum of the model overflows.   *)

RECURSIVE Pow2(_)
Pow2(n) == IF n = 0 THEN 1 ELSE 2 * Pow2(n - 1)

ExpRange == 0..5

FloatVals == {m * Pow2(e) : m \in 0..(Pow2(MantissaBits) - 1), e \in ExpRange}

SetMax(S) == CHOOSE x \in S : \A y \in S : y <= x
SetMin(S) == CHOOSE x \in S : \A y \in S : x <= y

\* The float nearest to the rational num/den (den > 0, num >= 0).
RoundRat(num, den) ==
    LET lo == SetMax({r \in FloatVals : r * den <= num})
        hi == SetMin({r \in FloatVals : r * den >= num})
    IN  IF lo = hi THEN lo
        ELSE IF num - lo * den < hi * den - num THEN lo
        ELSE IF num - lo * den > hi * den - num THEN hi
        ELSE IF (lo \div (hi - lo)) % 2 = 0 THEN lo
        ELSE hi

\* a + b and a / n on floats.
FloatAdd(a, b) == RoundRat(a + b, 1)
FloatDiv(a, n) == RoundRat(a, n)

RECURSIVE ExactSum(_)
ExactSum(q) == IF q = <<>> THEN 0 ELSE Head(q) + ExactSum(Tail(q))

RECURSIVE FoldSum(_, _)
FoldSum(acc, q) == IF q = <<>> THEN acc ELSE FoldSum(FloatAdd(acc, Head(q)), Tail(q))

\* sum(amounts).  Up to Python 3.11 sum() adds left to right, rounding
\* after every addition; from 3.12 it carries a compensation term, which on
\* these short lists yields the correctly rounded exact sum.
Sum(q, impl) == IF impl = "fold" THEN FoldSum(0, q) ELSE RoundRat(ExactSum(q), 1)

SeqMin(q) == SetMin({q[i] : i \in 1..Len(q)})
SeqMax(q) == SetMax({q[i] : i \in 1..Len(q)})

DigitChars == {"0", "1"}

RECURSIVE DecimalValue(_)
DecimalValue(s) ==
    IF s = <<>> THEN 0
    ELSE 10 * DecimalValue(SubSeq(s, 1, Len(s) - 1)) + (Code(s[Len(s)]) - 48)

\* float(total) for the value of a "totalAmount" key that is not None.
FloatOf(total) ==
    CASE Tag(total) = "num" -> Ok(RoundRat(Val(total), 1))
      [] Tag(total) = "str" ->
            IF Val(total) # <<>> /\ \A i \in 1..Len(Val(total)) : Val(total)[i] \in DigitChars
            THEN Ok(RoundRat(DecimalValue(Val(total)), 1))
            ELSE Raise("ValueError", <<"could not convert string to float">>)
      [] OTHER -> Raise("TypeError", <<"float() argument must be a string or a real number">>)

---------------------------------------------------------------------------
(* _tariff_sort_key and sorted(..., key=_tariff_sort_key)                  *)

EmptyStr == Str(<<>>)

\* tariff.get("startDateTime", ""): the default stands in for a missing
\* key only; a key that is present with the value null yields None.
TariffSortKey(tariff) == GetOr(tariff, "startDateTime", EmptyStr)

\* The key ordering of two tariffs whose keys are both str.
KeyLess(a, b) == StrLess(Val(TariffSortKey(a)), Val(TariffSortKey(b)))

\* A sort that is not stable: t goes in front of the elements of equal key.
InsertBeforeTies(s, t) ==
    LET p == Cardinality({i \in 1..Len(s) : KeyLess(s[i], t)})
    IN  SubSeq(s, 1, p) \o <<t>> \o SubSeq(s, p + 1, Len(s))

\* Insert t into the sorted list s behind every element whose key is not
\* greater than its own: equal keys keep their order of arrival.
InsertStable(s, t) ==
    LET p == Cardinality({i \in 1..Len(s) : ~KeyLess(t, s[i])})
    IN  SubSeq(s, 1, p) \o <<t>> \o SubSeq(s, p + 1, Len(s))

RECURSIVE StableSort(_)
StableSort(q) ==
    IF q = <<>> THEN <<>>
    ELSE InsertStable(StableSort(SubSeq(q, 1, Len(q) - 1)), q[Len(q)])

\* sorted(v, key=_tariff_sort_key) for the JSON value v.  The keys of all
\* items are computed first (an item that is no object has no get); then
\* the keys are compared, and with two or more items every key takes part
\* in a comparison, which raises unless all keys are str.
SortedTariffs(v) ==
    CASE Tag(v) \in {"null", "num"} ->
            Raise("TypeError", <<"object is not iterable">>)
      [] Tag(v) = "str" ->
            IF Val(v) = <<>> THEN Ok(<<>>)
            ELSE Raise("AttributeError", <<"'str' object has no attribute 'get'">>)
      [] Tag(v) = "dict" ->
            IF IsEmptyDict(v) THEN Ok(<<>>)
            ELSE Raise("AttributeError", <<"'str' object has no attribute 'get'">>)
      [] Tag(v) = "list" ->
            LET q == Val(v)
            IN  IF \E i \in 1..Len(q) : ~IsDict(q[i])
                THEN Raise("AttributeError", <<"object has no attribute 'get'">>)
                ELSE IF Len(q) >= 2 /\ \E i \in 1..Len(q) : Tag(TariffSortKey(q[i])) # "str"
                THEN Raise("TypeError", <<"'<' not supported">>)
                ELSE Ok(StableSort(q))

---------------------------------------------------------------------------
(* EssentClient._normalize_energy_block                                    *)

\* (data.get("unitOfMeasurement") or data.get("unit") or "").strip()
ResolveUnit(data) ==
    LET a == Get(data, "unitOfMeasurement")
        b == Get(data, "unit")
        chosen == IF Truthy(a) THEN a ELSE IF Truthy(b) THEN b ELSE EmptyStr
    IN  IF Tag(chosen) = "str" THEN Ok(Strip(Val(chosen)))
        ELSE Raise("AttributeError", <<"object has no attribute 'strip'">>)

\* The comprehension with the filter written "if total": an amount of 0
\* is dropped with the missing ones.
RECURSIVE CollectAmountsTruthy(_)
CollectAmountsTruthy(q) ==
    IF q = <<>> THEN Ok(<<>>)
    ELSE LET total == Get(Head(q), "totalAmount")
         IN  IF ~Truthy(total) THEN CollectAmountsTruthy(Tail(q))
             ELSE LET f == FloatOf(total)
                      rest == CollectAmountsTruthy(Tail(q))
                  IN  IF ~IsOk(f) THEN f
                      ELSE IF ~IsOk(rest) THEN rest
                      ELSE Ok(<<f.val>> \o rest.val)

\* [float(total) for tariff in tariffs_today
\*      if (total := tariff.get("totalAmount")) is not None]
RECURSIVE CollectAmounts(_)
CollectAmounts(q) ==
    IF q = <<>> THEN Ok(<<>>)
    ELSE LET total == Get(Head(q), "totalAmount")
         IN  IF total = Null THEN CollectAmounts(Tail(q))
             ELSE LET f == FloatOf(total)
                      rest == CollectAmounts(Tail(q))
                  IN  IF ~IsOk(f) THEN f
                      ELSE IF ~IsOk(rest) THEN rest
                      ELSE Ok(<<f.val>> \o rest.val)

\* The checks in the other order: the unit before the amounts.
CheckAndAssembleUnitFirst(tariffs_today, tariffs_tomorrow, unit, amounts, energy_type, impl) ==
    IF unit = <<>>
    THEN Raise("EssentDataError", <<"No unit provided for", energy_type>>)
    ELSE IF amounts = <<>>
    THEN Raise("EssentDataError", <<"No usable tariff values for", energy_type>>)
    ELSE Ok([tariffs |-> tariffs_today,
             tariffs_tomorrow |-> tariffs_tomorrow,
             unit |-> NormalizeUnit(unit),
             min_price |-> SeqMin(amounts),
             avg_price |-> FloatDiv(Sum(amounts, impl), Len(amounts)),
             max_price |-> SeqMax(amounts)])

\* The emptiness checks on the collected amounts and the unit, and the
\* returned dictionary (lines 148-161).
CheckAndAssemble(tariffs_today, tariffs_tomorrow, unit, amounts, energy_type, impl) ==
    IF amounts = <<>>
    THEN Raise("EssentDataError", <<"No usable tariff values for", energy_type>>)
    ELSE IF unit = <<>>
    THEN Raise("EssentDataError", <<"No unit provided for", energy_type>>)
    ELSE Ok([tariffs |-> tariffs_today,
             tariffs_tomorrow |-> tariffs_tomorrow,
             unit |-> NormalizeUnit(unit),
             min_price |-> SeqMin(amounts),
             avg_price |-> FloatDiv(Sum(amounts, impl), Len(amounts)),
             max_price |-> SeqMax(amounts)])

\* The tomorrow list (lines 135-140): empty unless the argument is truthy.
TomorrowTariffs(tomorrow) ==
    IF ~Truthy(tomorrow) THEN Ok(<<>>)
    ELSE IF ~IsDict(tomorrow)
    THEN Raise("AttributeError", <<"object has no attribute 'get'">>)
    ELSE SortedTariffs(GetOr(tomorrow, "tariffs", List(<<>>)))

NormalizeEnergyBlock(data, energy_type, tomorrow, impl) ==
    LET today == SortedTariffs(GetOr(data, "tariffs", List(<<>>)))
    IN  IF ~IsOk(today) THEN today
        ELSE IF today.val = <<>>
        THEN Raise("EssentDataError", <<"No tariffs found for", energy_type>>)
        ELSE LET tm == TomorrowTariffs(tomorrow)
                 unit == ResolveUnit(data)
                 amounts == CollectAmounts(today.val)
             IN  IF ~IsOk(tm) THEN tm
                 ELSE IF ~IsOk(unit) THEN unit
                 ELSE IF ~IsOk(amounts) THEN amounts
                 ELSE CheckAndAssemble(today.val, tm.val, unit.val, amounts.val,
                                       energy_type, impl)

---------------------------------------------------------------------------
(* Calls of _normalize_energy_block on a range of blocks.                  *)

Tariff(start, total) == Dict([startDateTime |-> start, totalAmount |-> total])

Block(tariffs, uom, unit) ==
    Dict([tariffs |-> tariffs, unitOfMeasurement |-> uom, unit |-> unit])

StartVals == {Absent, Null, EmptyStr, Str(<<"0">>), Str(<<"1">>)}

\* Tariffs of every start value, and tariffs with and without an amount
\* (an amount of 0 included).
TariffVals ==
    {Tariff(s, Num(6)) : s \in StartVals}
        \cup {Tariff(Absent, a) : a \in {Absent, Num(0), Num(7)}}
        \cup {Tariff(Str(<<"1">>), Absent)}

RECURSIVE SeqsUpTo(_, _)
SeqsUpTo(S, n) ==
    IF n = 0 THEN {<<>>}
    ELSE LET shorter == SeqsUpTo(S, n - 1)
         IN  shorter \cup {Append(q, x) : q \in shorter, x \in S}

\* The two unit fields of a block: (unitOfMeasurement, unit).
UnitFieldVals ==
    { <<Absent, Absent>>,
      <<Str(<<"K", "W", "H">>), Absent>>,
      <<EmptyStr, Str(<<" ", "m", "3">>)>>,
      <<Absent, Str(<<" ", " ">>)>>,
      <<Str(<<" ">>), Str(<<"x">>)>>,
      <<Null, Str(<<"x">>)>> }

TomorrowVals ==
    { Null,
      Block(List(<<Tariff(Str(<<"1">>), Num(7)), Tariff(Absent, Num(1)),
                   Tariff(EmptyStr, Num(0))>>), Absent, Absent),
      Str(<<"x">>) }

InitBlock ==
    /\ pc = "block_call"
    /\ sum_impl \in {"fold", "compensated"}
    /\ frame \in {[data |-> Block(List(q), u[1], u[2]),
                   energy_type |-> "electricity",
                   tomorrow |-> t] :
                     q \in SeqsUpTo(TariffVals, MaxTariffs),
                     u \in UnitFieldVals,
                     t \in TomorrowVals}
    /\ current_date = <<>>
    /\ fault = NoFault
    /\ response = NoResponse
    /\ body = NoBody
    /\ outcome = NoOutcome

CallNormalizeEnergyBlock ==
    /\ pc = "block_call"
    /\ outcome' = NormalizeEnergyBlock(frame.data, frame.energy_type,
                                       frame.tomorrow, sum_impl)
    /\ pc' = "block_done"
    /\ UNCHANGED <<current_date, sum_impl, fault, response, frame, body>>

NextBlock == CallNormalizeEnergyBlock

SpecBlock == InitBlock /\ [][NextBlock]_vars

\* The claims' reading of the input, written without the code's operators.
InputTariffs == Val(Val(frame.data).tariffs)

\* The start of a tariff as the claim orders it: none (absent or null)
\* counts as the empty string.
StartOrEmpty(t) ==
    IF Val(t).startDateTime \in {Absent, Null} THEN <<>>
    ELSE Val(Val(t).startDateTime)

HasAmount(t) == Val(t).totalAmount \notin {Absent, Null}

NonDecreasing(q) ==
    \A i, j \in 1..Len(q) : i < j => ~StrLess(StartOrEmpty(q[j]), StartOrEmpty(q[i]))

\* out holds the tariffs of in, and those of equal start in the order of in.
StablePermutation(in, out) ==
    /\ Len(in) = Len(out)
    /\ \A i \in 1..Len(in) :
          LET SameStart(t) == StartOrEmpty(t) = StartOrEmpty(in[i])
          IN  SelectSeq(out, SameStart) = SelectSeq(in, SameStart)

\* C2: for every accepted tariff list the returned tariffs (and
\* tariffs_tomorrow) are a stable permutation of the input, non-decreasing
\* by start, a tariff with no start ordered as the empty string.
C2_SortedStable ==
    pc = "block_done" /\ IsOk(outcome) =>
        /\ NonDecreasing(outcome.val.tariffs)
        /\ StablePermutation(InputTariffs, outcome.val.tariffs)
        /\ NonDecreasing(outcome.val.tariffs_tomorrow)
        /\ IsDict(frame.tomorrow) =>
              StablePermutation(Val(Val(frame.tomorrow).tariffs),
                                outcome.val.tariffs_tomorrow)

\* An accepted list in which sorting moved a tariff and kept a tie (an
\* absent start and an empty start) in input order.
C2_Witness ==
    /\ pc = "block_done"
    /\ IsOk(outcome)
    /\ InputTariffs = <<Tariff(Str(<<"1">>), Num(6)), Tariff(EmptyStr, Num(6)),
                        Tariff(Absent, Num(6))>>
    /\ outcome.val.tariffs = <<Tariff(EmptyStr, Num(6)), Tariff(Absent, Num(6)),
                               Tariff(Str(<<"1">>), Num(6))>>
    /\ Len(outcome.val.tariffs_tomorrow) = 3

\* C3: every successful result has min_price <= avg_price <= max_price.
C3_MinAvgMax ==
    pc = "block_done" /\ IsOk(outcome) =>
        /\ outcome.val.min_price <= outcome.val.avg_price
        /\ outcome.val.avg_price <= outcome.val.max_price

PresentAmounts(q) ==
    LET present == SelectSeq(q, HasAmount)
    IN  [i \in 1..Len(present) |-> Val(Val(present[i]).totalAmount)]

\* C4: every input tariff, with or without totalAmount, is in the returned
\* tariffs, and min, avg and max are those of the amounts present in
\* today's list alone.
C4_AggregatesOverPresent ==
    pc = "block_done" /\ IsOk(outcome) =>
        LET amounts == PresentAmounts(outcome.val.tariffs)
            given == {Val(Val(InputTariffs[i]).totalAmount) :
                          i \in {j \in 1..Len(InputTariffs) : HasAmount(InputTariffs[j])}}
        IN  /\ StablePermutation(InputTariffs, outcome.val.tariffs)
            /\ outcome.val.min_price \in given
            /\ \A a \in given : outcome.val.min_price <= a
            /\ outcome.val.max_price \in given
            /\ \A a \in given : a <= outcome.val.max_price
            /\ outcome.val.avg_price = FloatDiv(Sum(amounts, sum_impl), Len(amounts))

\* A result over a list that holds a tariff without amount, an amount of
\* 0, and a tomorrow list whose amounts lie outside today's range.
C4_Witness ==
    /\ pc = "block_done"
    /\ IsOk(outcome)
    /\ \E i \in 1..Len(InputTariffs) : ~HasAmount(InputTariffs[i])
    /\ outcome.val.min_price = 0
    /\ outcome.val.max_price = 6
    /\ outcome.val.avg_price = 3
    /\ Len(outcome.val.tariffs) = 3
    /\ Len(outcome.val.tariffs_tomorrow) = 3

\* The unit of the block as the claim resolves it.
ClaimedUnit ==
    LET uom == Val(frame.data).unitOfMeasurement
        unit == Val(frame.data).unit
        first == IF Tag(uom) = "str" /\ Val(uom) # <<>> THEN Val(uom)
                 ELSE IF Tag(unit) = "str" THEN Val(unit)
                 ELSE <<>>
    IN  SelectSeq(first, LAMBDA c : c # " ")

SomeAmount == \E i \in 1..Len(InputTariffs) : HasAmount(InputTariffs[i])

Message(o) == IF o.msg = <<>> THEN "" ELSE o.msg[1]

C10_WitnessNoUnit ==
    /\ pc = "block_done"
    /\ SomeAmount
    /\ Val(frame.data).unit = Str(<<" ", " ">>)
    /\ Message(outcome) = "No unit provided for"

---------------------------------------------------------------------------
(* EssentClient._select_days                                               *)

\* list.index(x): the first position holding a value equal to x.
IndexOf(q, x) == SetMin({i \in 1..Len(q) : q[i] = x})

\* The items a comprehension over the JSON value v visits: the elements
\* of a list, the characters of a string, the keys of an object.
Items(v) ==
    CASE Tag(v) = "list" -> Val(v)
      [] Tag(v) = "str" -> [i \in 1..Len(Val(v)) |-> Str(<<Val(v)[i]>>)]
      [] Tag(v) = "dict" ->
            IF IsEmptyDict(v) THEN <<>> ELSE <<Str(<<"key">>)>>

SelectDays(prices, now) ==
    IF Tag(prices) \notin {"list", "str", "dict"}
    THEN Raise("TypeError", <<"object is not iterable">>)
    ELSE
    LET dict_prices == SelectSeq(Items(prices), IsDict)
    IN  IF dict_prices = <<>>
        THEN Raise("EssentDataError", <<"Invalid data structure for current prices">>)
        ELSE
        LET matching == {i \in 1..Len(dict_prices) :
                            Get(dict_prices[i], "date") = Str(now)}
            today == IF matching # {} THEN dict_prices[SetMin(matching)]
                     ELSE dict_prices[1]
            today_index == IndexOf(dict_prices, today)
            tomorrow == IF today_index + 1 <= Len(dict_prices)
                        THEN dict_prices[today_index + 1]
                        ELSE Null
        IN  Ok([today |-> today, tomorrow |-> tomorrow])

Day(date, electricity, gas) ==
    Dict([date |-> date, electricity |-> electricity, gas |-> gas])

Date1 == <<"2024-01-01">>
Date2 == <<"2024-01-02">>
Date3 == <<"2024-01-03">>

GoodBlock ==
    Block(List(<<Tariff(Str(<<"1">>), Num(6)), Tariff(Str(<<"0">>), Num(2))>>),
          Str(<<"K", "W", "H">>), Absent)

\* Entries of a price list: days with and without a date, days of equal
\* date and different content, and entries that are no objects.
SelectEntryVals ==
    {Day(d, e, Absent) : d \in {Absent, Str(Date1), Str(Date2)}, e \in {Absent, GoodBlock}}
        \cup {Num(1), Null}

InitSelect ==
    /\ pc = "select_call"
    /\ current_date \in {Date1, Date2, Date3}
    /\ frame \in {[prices |-> List(q)] :
                     q \in SeqsUpTo(SelectEntryVals, MaxDays) \ {<<>>}}
    /\ sum_impl = "fold"
    /\ fault = NoFault
    /\ response = NoResponse
    /\ body = NoBody
    /\ outcome = NoOutcome

CallSelectDays ==
    /\ pc = "select_call"
    /\ outcome' = SelectDays(frame.prices, current_date)
    /\ pc' = "select_done"
    /\ UNCHANGED <<current_date, sum_impl, fault, response, frame, body>>

NextSelect == CallSelectDays

SpecSelect == InitSelect /\ [][NextSelect]_vars

\* The positions of a list whose entry carries the current date.
DatedToday(q) ==
    {i \in 1..Len(q) : IsDict(q[i]) /\ Val(q[i]).date = Str(current_date)}

\* The claimed selection from the list q: the first entry dated today,
\* else the first entry; tomorrow is the entry behind it, if any.
ClaimedToday(q) == IF DatedToday(q) # {} THEN SetMin(DatedToday(q)) ELSE 1

SelectsAsClaimed(q) ==
    /\ outcome.val.today = q[ClaimedToday(q)]
    /\ outcome.val.tomorrow =
          IF ClaimedToday(q) < Len(q) THEN q[ClaimedToday(q) + 1] ELSE Null

\* C1: for every non-empty price list, today is the first entry dated
\* today, or the entry at index 0 when none is; tomorrow is the entry that
\* follows it in the list, and is absent exactly when today is the last.
C1_DaySelection ==
    pc = "select_done" /\ IsOk(outcome) => SelectsAsClaimed(Val(frame.prices))

\* What the code does: the same selection over the object entries of the
\* list, the other entries skipped; no object entry at all is a DataError.
C1_OverObjectEntries ==
    pc = "select_done" =>
        LET objects == SelectSeq(Val(frame.prices), IsDict)
        IN  IF objects = <<>> THEN outcome.kind = "EssentDataError"
            ELSE IsOk(outcome) /\ SelectsAsClaimed(objects)

---------------------------------------------------------------------------
(* EssentClient.async_get_prices and EssentClient._request                 *)

\* The exception the transport raises for a fault.  The client sets a
\* total timeout only (CLIENT_TIMEOUT), whose expiry aiohttp reports as
\* asyncio.TimeoutError; the other faults are subclasses of ClientError.
ExceptionOf(kind) ==
    CASE kind = "dns" -> "ClientConnectorError"
      [] kind = "refused" -> "ClientConnectorError"
      [] kind = "tls" -> "ClientConnectorSSLError"
      [] kind = "disconnect" -> "ClientPayloadError"
      [] kind = "timeout" -> "TimeoutError"

IsClientError(exception) ==
    exception \in {"ClientConnectorError", "ClientConnectorSSLError",
                   "ClientPayloadError", "ContentTypeError"}

SendFaults == {"dns", "refused", "tls", "timeout"}
ReadFaults == {"disconnect", "timeout"}

\* A body is text: either no JSON at all, or the text of a JSON value.
GarbageText == <<"garbage">>
JsonText(v) == <<"json", v>>

\* response.json() on the body already read: the content type is checked
\* first, then the text is parsed.
ResponseJson(resp, text) ==
    IF ~resp.json_content_type
    THEN Raise("ContentTypeError", <<"Attempt to decode JSON with unexpected mimetype">>)
    ELSE IF text = GarbageText
    THEN Raise("ValueError", <<"Expecting value">>)
    ELSE Ok(text[2])

\* Lines 63-86: from the parsed data to the result.
NormalizeData(data, now, impl) ==
    IF ~IsDict(data)
    THEN Raise("AttributeError", <<"object has no attribute 'get'">>)
    ELSE IF ~Truthy(Get(data, "prices"))
    THEN Raise("EssentDataError", <<"No price data available">>)
    ELSE
    LET days == SelectDays(Get(data, "prices"), now)
    IN  IF ~IsOk(days) THEN days
        ELSE
        LET today == days.val.today
            tomorrow == days.val.tomorrow
            electricity_block == Get(today, "electricity")
            gas_block == Get(today, "gas")
        IN  IF ~IsDict(electricity_block) \/ ~IsDict(gas_block)
            THEN Raise("EssentDataError", <<"Response missing electricity or gas data">>)
            ELSE
            LET electricity ==
                    NormalizeEnergyBlock(electricity_block, "electricity",
                        IF IsDict(tomorrow) THEN Get(tomorrow, "electricity") ELSE Null,
                        impl)
                gas ==
                    NormalizeEnergyBlock(gas_block, "gas",
                        IF IsDict(tomorrow) THEN Get(tomorrow, "gas") ELSE Null,
                        impl)
            IN  IF ~IsOk(electricity) THEN electricity
                ELSE IF ~IsOk(gas) THEN gas
                ELSE Ok([electricity |-> electricity.val, gas |-> gas.val])

\* Lines 58-86: parse, then normalize.
ParseAndNormalize(resp, text, now, impl) ==
    LET data == ResponseJson(resp, text)
    IN  IF data.kind = "ValueError"
        THEN Raise("EssentResponseError", <<"Invalid JSON received from Essent API">>)
        ELSE IF ~IsOk(data) THEN data
        ELSE NormalizeData(data.val, now, impl)

HTTP_OK == 200

UnexpectedStatus(resp, text) ==
    Raise("EssentResponseError", <<"Unexpected status", resp.status, text>>)

\* A variant that parses the body before it looks at the status.
NormalizeResponseParseFirst(resp, text, now, impl) ==
    LET result == ParseAndNormalize(resp, text, now, impl)
    IN  IF result.kind = "EssentResponseError" THEN result
        ELSE IF resp.status # HTTP_OK THEN UnexpectedStatus(resp, text)
        ELSE result

\* Lines 53-86: everything async_get_prices does with the body it has read.
NormalizeResponse(resp, text, now, impl) ==
    IF resp.status # HTTP_OK THEN UnexpectedStatus(resp, text)
    ELSE ParseAndNormalize(resp, text, now, impl)

\* --- the responses the server may send ---

KwhField == Str(<<"K", "W", "H">>)

GoodTariffs ==
    List(<<Tariff(Str(<<"1">>), Num(6)), Tariff(Str(<<"0">>), Num(2))>>)

\* Energy blocks, today's or tomorrow's: none, a well-formed one, and the
\* shapes the envelope does not allow.
ElectricityVals ==
    { Absent,
      Str(<<"x">>),
      GoodBlock,
      Block(List(<<>>), KwhField, Absent),
      Block(Num(5), KwhField, Absent),
      Block(List(<<Num(1)>>), KwhField, Absent),
      Block(List(<<Tariff(Null, Num(6)), Tariff(Str(<<"0">>), Num(2))>>), KwhField, Absent),
      Block(GoodTariffs, Num(5), Absent),
      Block(List(<<Tariff(Absent, Str(<<"T">>))>>), KwhField, Absent) }

GasVals ==
    { Absent,
      Block(List(<<Tariff(Absent, Num(3))>>), Absent, Str(<<"m", "3">>)) }

EntryVals ==
    {Day(Str(d), e, g) : d \in {Date1, Date2}, e \in ElectricityVals, g \in GasVals}
        \cup {Num(1)}

\* The value of "prices": missing, empty, no list, or a list of fewer than
\* MaxDays entries (a today, a tomorrow, and entries that are no objects).
PricesVals ==
    {Absent, List(<<>>), Num(5), Str(<<"x">>)}
        \cup {List(q) : q \in SeqsUpTo(EntryVals, MaxDays - 1) \ {<<>>}}

Bodies ==
    {GarbageText, JsonText(Null), JsonText(List(<<>>))}
        \cup {JsonText(Dict([prices |-> p])) : p \in PricesVals}

Statuses == {200, 204, 500}

Init ==
    /\ pc = "start"
    /\ current_date \in {Date1, Date2}
    /\ sum_impl \in {"fold", "compensated"}
    /\ fault = NoFault
    /\ response = NoResponse
    /\ body = NoBody
    /\ frame = <<>>
    /\ outcome = NoOutcome

\* await self._session.get(...) returns a response (lines 91-95).
RequestReturns ==
    /\ pc = "start"
    /\ \E s \in Statuses, j \in BOOLEAN :
          response' = [status |-> s, json_content_type |-> j]
    /\ pc' = "requested"
    /\ UNCHANGED <<current_date, sum_impl, fault, body, frame, outcome>>

\* await self._session.get(...) raises: _request wraps a ClientError and
\* lets any other exception through (lines 90-97).
RequestRaises ==
    /\ pc = "start"
    /\ \E k \in SendFaults :
          /\ fault' = [phase |-> "send", kind |-> k]
          /\ outcome' =
                IF IsClientError(ExceptionOf(k))
                THEN Raise("EssentConnectionError",
                           <<"Error communicating with API", ExceptionOf(k)>>)
                ELSE Raise(ExceptionOf(k), <<>>)
    /\ pc' = "done"
    /\ UNCHANGED <<current_date, sum_impl, response, body, frame>>

\* await response.text() returns the body (line 51).
ReadBodyReturns ==
    /\ pc = "requested"
    /\ body' \in Bodies
    /\ pc' = "body_read"
    /\ UNCHANGED <<current_date, sum_impl, fault, response, frame, outcome>>

\* await response.text() raises: line 51 stands in no try block.
ReadBodyRaises ==
    /\ pc = "requested"
    /\ \E k \in ReadFaults :
          /\ fault' = [phase |-> "read", kind |-> k]
          /\ outcome' = Raise(ExceptionOf(k), <<>>)
    /\ pc' = "done"
    /\ UNCHANGED <<current_date, sum_impl, response, body, frame>>

\* The synchronous rest of async_get_prices (lines 53-86).
Normalize ==
    /\ pc = "body_read"
    /\ outcome' = NormalizeResponse(response, body, current_date, sum_impl)
    /\ pc' = "done"
    /\ UNCHANGED <<current_date, sum_impl, fault, response, body, frame>>

Next ==
    \/ RequestReturns
    \/ RequestRaises
    \/ ReadBodyReturns
    \/ ReadBodyRaises
    \/ Normalize

Spec == Init /\ [][Next]_vars

---------------------------------------------------------------------------
(* Claims about the whole call.                                            *)

\* The call ran to its end on a 200 response whose body parsed as JSON.
ParsedJson ==
    /\ pc = "done"
    /\ fault = NoFault
    /\ response.status = HTTP_OK
    /\ response.json_content_type
    /\ body # GarbageText

Data == body[2]

\* The envelope shape of section 6 of the specification.
IsTariffShape(t) ==
    /\ IsDict(t)
    /\ Tag(Val(t).startDateTime) \in {"absent", "null", "str"}
    /\ Tag(Val(t).totalAmount) \in {"absent", "null", "num"}

IsBlockShape(b) ==
    /\ IsDict(b)
    /\ Tag(Val(b).tariffs) = "list"
    /\ \A i \in 1..Len(Val(Val(b).tariffs)) : IsTariffShape(Val(Val(b).tariffs)[i])
    /\ Tag(Val(b).unitOfMeasurement) \in {"absent", "null", "str"}
    /\ Tag(Val(b).unit) \in {"absent", "null", "str"}

IsDayShape(d) ==
    /\ IsDict(d)
    /\ Tag(Val(d).date) = "str"
    /\ IsBlockShape(Val(d).electricity)
    /\ IsBlockShape(Val(d).gas)

IsEnvelopeShape(v) ==
    /\ IsDict(v)
    /\ Tag(Val(v).prices) = "list"
    /\ \A i \in 1..Len(Val(Val(v).prices)) : IsDayShape(Val(Val(v).prices)[i])

TypedKinds == {"ok", "EssentConnectionError", "EssentResponseError", "EssentDataError"}

\* C5: a body that is well-formed JSON but not of the envelope shape fails
\* with DataError, and no call fails with an error outside
\* ConnectionError, ResponseError and DataError.
C5_ShapeErrorsAreDataErrors ==
    ParsedJson =>
        /\ outcome.kind \in TypedKinds
        /\ ~IsEnvelopeShape(Data) => outcome.kind = "EssentDataError"

\* The day entries the call selected, when it got that far.
Selected == SelectDays(Get(Data, "prices"), current_date)

TodayNormalizes ==
    /\ ParsedJson
    /\ IsDict(Data)
    /\ Truthy(Get(Data, "prices"))
    /\ IsOk(Selected)
    /\ IsDict(Get(Selected.val.today, "electricity"))
    /\ IsDict(Get(Selected.val.today, "gas"))
    /\ IsOk(NormalizeEnergyBlock(Get(Selected.val.today, "electricity"),
                                 "electricity", Null, sum_impl))
    /\ IsOk(NormalizeEnergyBlock(Get(Selected.val.today, "gas"), "gas", Null, sum_impl))

\* Tomorrow's block of one energy type holds no usable tariff list: there
\* is no tomorrow entry, the block is missing or no object, or its tariffs
\* are missing, no list, or the empty list.
TomorrowUnusable(type) ==
    \/ ~IsDict(Selected.val.tomorrow)
    \/ ~IsDict(Val(Selected.val.tomorrow)[type])
    \/ Tag(Val(Val(Selected.val.tomorrow)[type]).tariffs) # "list"
    \/ Val(Val(Selected.val.tomorrow)[type]).tariffs = List(<<>>)

\* C6: whenever today's entry normalizes, the call succeeds whatever the
\* tomorrow entry holds, and an absent or malformed tomorrow block yields
\* an empty tariffs_tomorrow.
C6_TomorrowBestEffort ==
    TodayNormalizes =>
        /\ IsOk(outcome)
        /\ \A type \in {"electricity", "gas"} :
              TomorrowUnusable(type) => outcome.val[type].tariffs_tomorrow = <<>>

\* C7: every transport failure, while sending the request or while reading
\* the body, reaches the caller as ConnectionError carrying its cause.
C7_TransportFailuresWrapped ==
    pc = "done" /\ fault # NoFault =>
        /\ outcome.kind = "EssentConnectionError"
        /\ outcome.msg = <<"Error communicating with API", ExceptionOf(fault.kind)>>

\* C8: a response whose status is not 200 fails with ResponseError naming
\* the status and the body, whatever the body holds, and no result is
\* returned for it.
C8_StatusCheckFirst ==
    /\ pc = "done" /\ fault = NoFault /\ response.status # HTTP_OK =>
          /\ outcome.kind = "EssentResponseError"
          /\ outcome.msg = <<"Unexpected status", response.status, body>>
    /\ pc = "done" /\ IsOk(outcome) => response.status = HTTP_OK

\* A 500 response carrying a body that a 200 response would have turned
\* into a result.
C8_Witness ==
    /\ pc = "done"
    /\ response.status = 500
    /\ response.json_content_type
    /\ body = JsonText(Dict([prices |->
                List(<<Day(Str(Date1), GoodBlock,
                           Block(List(<<Tariff(Absent, Num(3))>>), Absent,
                                 Str(<<"m", "3">>)))>>)]))
    /\ outcome.kind = "EssentResponseError"
    /\ IsOk(ParseAndNormalize([response EXCEPT !.status = HTTP_OK], body,
                              current_date, sum_impl))

=============================================================================
